---- MODULE Spec2Model ----
(***************************************************************************)
(* Model of src/database.py: DatabaseManager (check_connection, reconnect, *)
(* execute_with_retry, batch_operation) and TransactionManager             *)
(* (transaction, savepoint).                                               *)
(*                                                                         *)
(* One call is followed from its entry to its return or raise.  Each await *)
(* point of the code is one step.  `trace` is the history of what the call *)
(* did to its collaborators (sessions opened, operations invoked, sleeps,  *)
(* health checks, reconnects, commits, rollbacks), in program order.       *)
(*                                                                         *)
(* The SQLAlchemy session is modelled by what the calls made on it do in   *)
(* SQLAlchemy 2.0 (the version the module's docstring names):              *)
(*   - work done by an operation is pending in the session's transaction;  *)
(*   - Session.commit() commits the outermost transaction, releasing every *)
(*     savepoint;                                                          *)
(*   - Session.rollback() rolls back the outermost transaction, discarding *)
(*     every savepoint;                                                    *)
(*   - closing a session discards what is pending.                         *)
(* commit() and rollback() themselves are taken to succeed; the failures   *)
(* followed are those of the operations the caller passes in.              *)
(***************************************************************************)
EXTENDS Integers, Sequences, FiniteSets

\* ---------------------------------------------------------------- bounds
MaxRetries == 3
MaxOps == 4
MaxBatch == 3

\* ------------------------------------------------------------ vocabulary
\* Python's None (last_exception = None, the implicit return value).
None == [cls |-> "None", at |-> 0]

\* An exception raised by the invocation numbered `at`.
Exc(cls, at) == [cls |-> cls, at |-> at]

\* The classes an operation may raise: a database-level error, or any other
\* Exception.
ExcClasses == {"SQLAlchemyError", "Exception"}

\* The value operation number k returns.
Res(k) == 10 * k

\* Work pending in the caller's session before TransactionManager is called.
OuterWork == 0

NoSession == [sid |-> 0, engine |-> 0, pending |-> <<>>, inTxn |-> FALSE,
              savepoints |-> <<>>, open |-> FALSE]

Running == [kind |-> "running"]
Returned(v) == [kind |-> "return", value |-> v]
ReturnedNone == [kind |-> "return_none"]
Raised(e) == [kind |-> "raise", exc |-> e]

Range(s) == {s[k] : k \in 1..Len(s)}

Min(a, b) == IF a < b THEN a ELSE b

VARIABLES
    pc,             \* position of the running call
    fn,             \* which method was called
    max_retries,    \* execute_with_retry's argument
    operations,     \* batch_operation's / transaction's list (operation ids)
    batch_size,     \* batch_operation's argument
    attempt,        \* execute_with_retry: loop variable
    last_exception, \* execute_with_retry: local
    i,              \* batch_operation: loop variable of the outer loop
    batch,          \* batch_operation: the current chunk; transaction: the list
    batch_results,  \* batch_operation: local; transaction: results
    results,        \* batch_operation: local
    caught,         \* the exception bound by the running except clause
    session,        \* the session in use
    nextSid,        \* sessions created so far + 1
    engine,         \* self.engine: the generation of the connection pool
    committed,      \* work the database holds durably
    trace,          \* history of the call's effects
    result          \* how the call ended

vars == <<pc, fn, max_retries, operations, batch_size, attempt, last_exception,
          i, batch, batch_results, results, caught, session, nextSid, engine,
          committed, trace, result>>

callVars == <<fn, max_retries, operations, batch_size>>
retryVars == <<attempt, last_exception>>
batchVars == <<i, batch, batch_results, results, caught>>

\* ------------------------------------------------- the session (library)
\* self.session_factory(): a new session bound to the current engine.
NewSession(sid, eng) ==
    [sid |-> sid, engine |-> eng, pending |-> <<>>, inTxn |-> FALSE,
     savepoints |-> <<>>, open |-> TRUE]

\* An operation's work on the session: it joins the pending transaction.
SessionAdd(s, w) ==
    [s EXCEPT !.pending = Append(@, w), !.inTxn = TRUE]

\* session.begin_nested(): SAVEPOINT at the current end of the pending work.
SessionBeginNested(s) ==
    [s EXCEPT !.inTxn = TRUE, !.savepoints = Append(@, Len(s.pending))]

\* await session.commit(): the outermost transaction ends, committed.
SessionCommit(s) ==
    [s EXCEPT !.pending = <<>>, !.inTxn = FALSE, !.savepoints = <<>>]

\* What session.commit() makes durable.
CommitEffect(s, db) == db \cup Range(s.pending)

\* await session.rollback(): the outermost transaction ends, rolled back.
SessionRollback(s) ==
    [s EXCEPT !.pending = <<>>, !.inTxn = FALSE, !.savepoints = <<>>]

\* Leaving `async with self.session_factory() as session`.
SessionClose(s) ==
    [s EXCEPT !.pending = <<>>, !.inTxn = FALSE, !.savepoints = <<>>,
              !.open = FALSE]

\* ----------------------------------------------------------------- events
EvSession(s) == [ev |-> "session", sid |-> s.sid, engine |-> s.engine]
EvInvoke(k, sid, out, v) ==
    [ev |-> "invoke", attempt |-> k, sid |-> sid, out |-> out, val |-> v]
EvSleep(secs) == [ev |-> "sleep", secs |-> secs]
EvCheck(h) == [ev |-> "check", healthy |-> h]
EvReconnect(eng, ok) == [ev |-> "reconnect", engine |-> eng, ok |-> ok]
EvOp(op, sid, out) == [ev |-> "op", op |-> op, sid |-> sid, out |-> out]
EvBeginNested(sid, outer) == [ev |-> "begin_nested", sid |-> sid, outer |-> outer]
EvCommit(sid) == [ev |-> "commit", sid |-> sid]
EvRollback(sid) == [ev |-> "rollback", sid |-> sid]

\* ------------------------------------------------------------------- Init
Init ==
    /\ pc = "idle"
    /\ fn = "none"
    /\ max_retries = 0
    /\ operations = <<>>
    /\ batch_size = 1
    /\ attempt = 0
    /\ last_exception = None
    /\ i = 0
    /\ batch = <<>>
    /\ batch_results = <<>>
    /\ results = <<>>
    /\ caught = None
    /\ session = NoSession
    /\ nextSid = 1
    /\ engine = 1
    /\ committed = {}
    /\ trace = <<>>
    /\ result = Running

\* ----------------------------------------------------- execute_with_retry
\* Mutation: every exception is retried (except Exception).
IsDatabaseErrorAny(e) == TRUE

\* except SQLAlchemyError as e
IsDatabaseError(e) == e.cls = "SQLAlchemyError"

\* Mutation: only the first failure is kept.
RecordFailureFirst(last, e) == IF last = None THEN e ELSE last

\* last_exception = e
RecordFailure(last, e) == e

\* Mutation: the wait also follows the final attempt (attempt < max_retries).
RetryFollowsAlways(k, n) == k < n

\* if attempt < max_retries - 1
RetryFollows(k, n) == k < n - 1

\* Mutation: the attempt is counted from 1 (2 ** (attempt + 1)).
BackoffFromOne(k) == 2^(k + 1)

\* asyncio.sleep(2 ** attempt)
Backoff(k) == 2^k

\* if not await self.check_connection()
NeedsReconnect(healthy) == ~healthy

\* Mutation: the final raise is forgotten.
IsTruthyNever(e) == FALSE

\* if last_exception
IsTruthy(e) == e # None

\* execute_with_retry(operation, max_retries) is called.
CallRetry ==
    /\ pc = "idle"
    /\ \E n \in -1..MaxRetries : max_retries' = n
    /\ fn' = "execute_with_retry"
    /\ pc' = "retry_loop"
    /\ attempt' = 0
    /\ last_exception' = None
    /\ UNCHANGED <<operations, batch_size, batchVars, session, nextSid, engine,
                   committed, trace, result>>

\* One pass of the loop body up to the first await after the operation: a
\* session is opened, the operation is awaited on it, the session is closed
\* as the `async with` is left.
RetryAttempt ==
    /\ pc = "retry_loop"
    /\ attempt < max_retries
    /\ \E out \in {"ok"} \cup ExcClasses, v \in {Res(1), Res(2)} :
        LET s == NewSession(nextSid, engine)
            e == Exc(out, attempt)
            val == IF out = "ok" THEN v ELSE 0
        IN  /\ nextSid' = nextSid + 1
            /\ session' = SessionClose(IF out = "ok" THEN SessionAdd(s, 1) ELSE s)
            /\ trace' = trace \o <<EvSession(s), EvInvoke(attempt, s.sid, out, val)>>
            /\ IF out = "ok"
               THEN /\ result' = Returned(v)
                    /\ pc' = "done"
                    /\ UNCHANGED retryVars
               ELSE IF IsDatabaseError(e)
               THEN /\ last_exception' = RecordFailure(last_exception, e)
                    /\ result' = result
                    /\ IF RetryFollows(attempt, max_retries)
                       THEN pc' = "retry_sleep" /\ attempt' = attempt
                       ELSE pc' = "retry_loop" /\ attempt' = attempt + 1
               ELSE /\ result' = Raised(e)
                    /\ pc' = "done"
                    /\ UNCHANGED retryVars
    /\ UNCHANGED <<callVars, batchVars, engine, committed>>

\* await asyncio.sleep(2 ** attempt)
RetrySleep ==
    /\ pc = "retry_sleep"
    /\ trace' = Append(trace, EvSleep(Backoff(attempt)))
    /\ pc' = "retry_check"
    /\ UNCHANGED <<callVars, retryVars, batchVars, session, nextSid, engine,
                   committed, result>>

\* await self.check_connection(): True, or False on any exception (a failed
\* connect, or the driver refusing the plain string "SELECT 1").  Both
\* outcomes are followed.
RetryCheck ==
    /\ pc = "retry_check"
    /\ \E healthy \in BOOLEAN :
        /\ trace' = Append(trace, EvCheck(healthy))
        /\ IF NeedsReconnect(healthy)
           THEN pc' = "retry_reconnect" /\ attempt' = attempt
           ELSE pc' = "retry_loop" /\ attempt' = attempt + 1
    /\ UNCHANGED <<callVars, last_exception, batchVars, session, nextSid,
                   engine, committed, result>>

\* await self.reconnect(): the pool is disposed and a new engine and session
\* factory are made, then the connection is tested; any exception on the way
\* is swallowed (the engine may then be the old one).  The returned bool is
\* not used by execute_with_retry.
RetryReconnect ==
    /\ pc = "retry_reconnect"
    /\ \E replaced \in BOOLEAN, ok \in BOOLEAN :
        /\ replaced \/ ~ok
        /\ engine' = IF replaced THEN engine + 1 ELSE engine
        /\ trace' = Append(trace, EvReconnect(engine', ok))
    /\ pc' = "retry_loop"
    /\ attempt' = attempt + 1
    /\ UNCHANGED <<callVars, last_exception, batchVars, session, nextSid,
                   committed, result>>

\* The loop is over: raise last_exception if it is set, else fall off the end.
RetryExhausted ==
    /\ pc = "retry_loop"
    /\ ~(attempt < max_retries)
    /\ result' = IF IsTruthy(last_exception)
                 THEN Raised(last_exception)
                 ELSE ReturnedNone
    /\ pc' = "done"
    /\ UNCHANGED <<callVars, retryVars, batchVars, session, nextSid, engine,
                   committed, trace>>

\* -------------------------------------------------------- batch_operation
\* The lists of operations a caller may pass: distinct operation ids, in any
\* order.
OpLists ==
    {s \in UNION {[1..n -> 1..MaxOps] : n \in 0..MaxOps} :
        \A a, b \in DOMAIN s : a # b => s[a] # s[b]}

\* Mutation: the slice stops one short (operations[i:i + batch_size - 1]).
ChunkShort(ops, start, size) ==
    SubSeq(ops, start + 1, Min(start + size - 1, Len(ops)))

\* batch = operations[i:i + batch_size]
Chunk(ops, start, size) == SubSeq(ops, start + 1, Min(start + size, Len(ops)))

\* for i in range(0, len(operations), batch_size): the next value of i
NextStart(start, size) == start + size

\* batch_results.append(result)
AppendResult(rs, r) == Append(rs, r)

\* results.extend(batch_results)
ExtendResults(rs, brs) == rs \o brs

\* batch_operation(operations, batch_size) is called.
CallBatch ==
    /\ pc = "idle"
    /\ \E ops \in OpLists, b \in 1..MaxBatch :
        /\ operations' = ops
        /\ batch_size' = b
    /\ fn' = "batch_operation"
    /\ pc' = "batch_loop"
    /\ i' = 0
    /\ results' = <<>>
    /\ UNCHANGED <<max_retries, retryVars, batch, batch_results, caught,
                   session, nextSid, engine, committed, trace, result>>

\* The outer loop takes the next chunk and opens its session.
BatchNextChunk ==
    /\ pc = "batch_loop"
    /\ i < Len(operations)
    /\ batch' = Chunk(operations, i, batch_size)
    /\ session' = NewSession(nextSid, engine)
    /\ nextSid' = nextSid + 1
    /\ batch_results' = <<>>
    /\ trace' = Append(trace, EvSession(session'))
    /\ pc' = "batch_op"
    /\ UNCHANGED <<callVars, retryVars, i, results, caught, engine, committed,
                   result>>

\* result = await operation(session): the operation's work joins the
\* session's transaction and its result is appended, or it raises (having
\* done none or some of its work).
RunOperation(op, next_pc, except_pc) ==
    \E out \in {"ok"} \cup ExcClasses, partial \in BOOLEAN :
        /\ out = "ok" => partial
        /\ session' = IF partial THEN SessionAdd(session, op) ELSE session
        /\ trace' = Append(trace, EvOp(op, session.sid, out))
        /\ IF out = "ok"
           THEN /\ batch_results' = AppendResult(batch_results, Res(op))
                /\ caught' = caught
                /\ pc' = next_pc
           ELSE /\ batch_results' = batch_results
                /\ caught' = Exc(out, op)
                /\ pc' = except_pc

\* The inner loop runs the chunk's next operation.
BatchOp ==
    /\ pc = "batch_op"
    /\ Len(batch_results) < Len(batch)
    /\ RunOperation(batch[Len(batch_results) + 1], "batch_op", "batch_except")
    /\ UNCHANGED <<callVars, retryVars, i, batch, results, nextSid, engine,
                   committed, result>>

\* Mutation: the commit is forgotten; the session is left with its work
\* pending.
BatchCommitForgotten ==
    /\ pc = "batch_op"
    /\ ~(Len(batch_results) < Len(batch))
    /\ session' = SessionClose(session)
    /\ results' = ExtendResults(results, batch_results)
    /\ i' = NextStart(i, batch_size)
    /\ pc' = "batch_loop"
    /\ UNCHANGED <<callVars, retryVars, batch, batch_results, caught, nextSid,
                   engine, result, committed, trace>>

\* The chunk is done: commit, extend results, leave the session, advance.
BatchCommit ==
    /\ pc = "batch_op"
    /\ ~(Len(batch_results) < Len(batch))
    /\ committed' = CommitEffect(session, committed)
    /\ session' = SessionClose(SessionCommit(session))
    /\ trace' = Append(trace, EvCommit(session.sid))
    /\ results' = ExtendResults(results, batch_results)
    /\ i' = NextStart(i, batch_size)
    /\ pc' = "batch_loop"
    /\ UNCHANGED <<callVars, retryVars, batch, batch_results, caught, nextSid,
                   engine, result>>

\* Mutation: the handler logs and goes on with the next chunk (no raise).
BatchExceptContinue ==
    /\ pc = "batch_except"
    /\ session' = SessionClose(SessionRollback(session))
    /\ trace' = Append(trace, EvRollback(session.sid))
    /\ i' = NextStart(i, batch_size)
    /\ pc' = "batch_loop"
    /\ UNCHANGED <<callVars, retryVars, batch, batch_results, results, caught,
                   nextSid, engine, committed, result>>

\* except Exception: rollback, log, raise (the session is left on the way).
BatchExcept ==
    /\ pc = "batch_except"
    /\ session' = SessionClose(SessionRollback(session))
    /\ trace' = Append(trace, EvRollback(session.sid))
    /\ result' = Raised(caught)
    /\ pc' = "done"
    /\ UNCHANGED <<callVars, retryVars, batchVars, nextSid, engine, committed>>

\* return results
BatchReturn ==
    /\ pc = "batch_loop"
    /\ ~(i < Len(operations))
    /\ result' = Returned(results)
    /\ pc' = "done"
    /\ UNCHANGED <<callVars, retryVars, batchVars, session, nextSid, engine,
                   committed, trace>>

\* --------------------------------------------------- TransactionManager
\* The session a caller passes in: its own, with or without pending work of
\* an outer transaction.
CallerSession(sid, eng, outer) ==
    IF outer THEN SessionAdd(NewSession(sid, eng), OuterWork)
             ELSE NewSession(sid, eng)

\* TransactionManager.transaction(session, operations) is called.
CallTransaction ==
    /\ pc = "idle"
    /\ \E ops \in OpLists, outer \in BOOLEAN :
        /\ operations' = ops
        /\ session' = CallerSession(nextSid, engine, outer)
    /\ nextSid' = nextSid + 1
    /\ fn' = "transaction"
    /\ batch' = operations'
    /\ batch_results' = <<>>
    /\ pc' = "txn_op"
    /\ UNCHANGED <<max_retries, batch_size, retryVars, i, results, caught,
                   engine, committed, trace, result>>

\* The loop runs the next operation.
TxnOp ==
    /\ pc = "txn_op"
    /\ Len(batch_results) < Len(batch)
    /\ RunOperation(batch[Len(batch_results) + 1], "txn_op", "txn_except")
    /\ UNCHANGED <<callVars, retryVars, i, batch, results, nextSid, engine,
                   committed, result>>

\* await session.commit(); return results
TxnCommit ==
    /\ pc = "txn_op"
    /\ ~(Len(batch_results) < Len(batch))
    /\ committed' = CommitEffect(session, committed)
    /\ session' = SessionCommit(session)
    /\ trace' = Append(trace, EvCommit(session.sid))
    /\ result' = Returned(batch_results)
    /\ pc' = "done"
    /\ UNCHANGED <<callVars, retryVars, batchVars, nextSid, engine>>

\* Mutation: the handler raises without rolling back.
TxnExceptNoRollback ==
    /\ pc = "txn_except"
    /\ result' = Raised(caught)
    /\ pc' = "done"
    /\ UNCHANGED <<callVars, retryVars, batchVars, session, nextSid, engine,
                   committed, trace>>

\* except Exception: rollback, log, raise
TxnExcept ==
    /\ pc = "txn_except"
    /\ session' = SessionRollback(session)
    /\ trace' = Append(trace, EvRollback(session.sid))
    /\ result' = Raised(caught)
    /\ pc' = "done"
    /\ UNCHANGED <<callVars, retryVars, batchVars, nextSid, engine, committed>>

\* TransactionManager.savepoint(session, operation) is called and enters
\* `async with session.begin_nested()`.
CallSavepoint ==
    /\ pc = "idle"
    /\ \E op \in 1..MaxOps, outer \in BOOLEAN :
        /\ operations' = <<op>>
        /\ session' = SessionBeginNested(CallerSession(nextSid, engine, outer))
        /\ trace' = Append(trace, EvBeginNested(nextSid, outer))
    /\ nextSid' = nextSid + 1
    /\ fn' = "savepoint"
    /\ batch' = operations'
    /\ batch_results' = <<>>
    /\ pc' = "sp_op"
    /\ UNCHANGED <<max_retries, batch_size, retryVars, i, results, caught,
                   engine, committed, result>>

\* result = await operation(session)
SavepointOp ==
    /\ pc = "sp_op"
    /\ RunOperation(batch[1], "sp_commit", "sp_except")
    /\ UNCHANGED <<callVars, retryVars, i, batch, results, nextSid, engine,
                   committed, result>>

\* await session.commit(); return result.  The nested transaction is over
\* by then, so leaving the `async with` does nothing more.
SavepointCommit ==
    /\ pc = "sp_commit"
    /\ committed' = CommitEffect(session, committed)
    /\ session' = SessionCommit(session)
    /\ trace' = Append(trace, EvCommit(session.sid))
    /\ result' = Returned(batch_results[1])
    /\ pc' = "done"
    /\ UNCHANGED <<callVars, retryVars, batchVars, nextSid, engine>>

\* except Exception: await session.rollback(), log, raise.  The nested
\* transaction is over by then, so leaving the `async with` only lets the
\* exception through.
SavepointExcept ==
    /\ pc = "sp_except"
    /\ session' = SessionRollback(session)
    /\ trace' = Append(trace, EvRollback(session.sid))
    /\ result' = Raised(caught)
    /\ pc' = "done"
    /\ UNCHANGED <<callVars, retryVars, batchVars, nextSid, engine, committed>>

\* ------------------------------------------------------------------ Next
Next ==
    \/ CallRetry
    \/ RetryAttempt
    \/ RetrySleep
    \/ RetryCheck
    \/ RetryReconnect
    \/ RetryExhausted
    \/ CallBatch
    \/ BatchNextChunk
    \/ BatchOp
    \/ BatchCommit
    \/ BatchExcept
    \/ BatchReturn
    \/ CallTransaction
    \/ TxnOp
    \/ TxnCommit
    \/ TxnExcept
    \/ CallSavepoint
    \/ SavepointOp
    \/ SavepointCommit
    \/ SavepointExcept

Spec == Init /\ [][Next]_vars

\* ================================================================ claims
Idx == 1..Len(trace)
InvokeIdx == {k \in Idx : trace[k].ev = "invoke"}
IsRetry == fn = "execute_with_retry"
NotSessionEvent(e) == e.ev # "session"

\* What the call did strictly between trace positions a and b, the opening
\* of the next attempt's session apart.
Between(a, b) == SelectSeq(SubSeq(trace, a + 1, b - 1), NotSessionEvent)

\* C1: execute_with_retry with max_retries = N >= 1 whose attempts all fail
\* with a SQLAlchemyError makes all N attempts, then raises, and raises the
\* exception of the N-th attempt.
C1_LastFailureRaised ==
    (/\ IsRetry /\ pc = "done" /\ max_retries >= 1
     /\ \A k \in InvokeIdx : trace[k].out = "SQLAlchemyError")
    => /\ {trace[k].attempt : k \in InvokeIdx} = 0..(max_retries - 1)
       /\ Cardinality(InvokeIdx) = max_retries
       /\ result = Raised(Exc("SQLAlchemyError", max_retries - 1))

C1_Witness ==
    /\ IsRetry /\ pc = "done" /\ max_retries = 3
    /\ Cardinality(InvokeIdx) = 3
    /\ \A k \in InvokeIdx : trace[k].out = "SQLAlchemyError"
    /\ result.kind = "raise"

\* C2: between a failed attempt k and the attempt that follows it, the call
\* sleeps 2^k, then checks the connection, then calls reconnect if and only
\* if the check said unhealthy; nothing else happens in between, and the
\* attempt that follows is attempt k + 1 after a SQLAlchemyError.
C2_BackoffCheckReconnect ==
    IsRetry =>
        \A a, b \in InvokeIdx :
            (a < b /\ ~\E c \in InvokeIdx : a < c /\ c < b) =>
                LET k == trace[a].attempt
                    mid == Between(a, b)
                IN  /\ trace[a].out = "SQLAlchemyError"
                    /\ trace[b].attempt = k + 1
                    /\ Len(mid) \in {2, 3}
                    /\ mid[1] = EvSleep(2^k)
                    /\ mid[2].ev = "check"
                    /\ (Len(mid) = 3) <=> ~mid[2].healthy
                    /\ Len(mid) = 3 => mid[3].ev = "reconnect"

C2_Witness ==
    /\ IsRetry
    /\ \E a, b, c \in InvokeIdx :
        /\ a < b /\ b < c
        /\ trace[a].attempt = 0 /\ trace[b].attempt = 1 /\ trace[c].attempt = 2
        /\ Len(Between(a, b)) = 2
        /\ Len(Between(b, c)) = 3
        /\ Between(b, c)[1].secs = 2

\* C7: execute_with_retry invokes the operation at most max_retries times,
\* each time on a session opened for that invocation alone; a successful
\* invocation is the last thing the call does and its value is returned; the
\* final failed attempt is the last thing the call does before it raises.
C7_BoundedFreshNoTrailingWork ==
    IsRetry =>
        /\ Cardinality(InvokeIdx) <= (IF max_retries > 0 THEN max_retries ELSE 0)
        /\ \A k \in InvokeIdx :
            /\ k > 1 /\ trace[k - 1].ev = "session"
            /\ trace[k - 1].sid = trace[k].sid
            /\ \A m \in Idx : (m < k - 1 /\ trace[m].ev \in {"session", "invoke"})
                                => trace[m].sid # trace[k].sid
            /\ trace[k].out = "ok" =>
                /\ k = Len(trace)
                /\ pc = "done"
                /\ result = Returned(trace[k].val)
            /\ (trace[k].out # "ok" /\ trace[k].attempt >= max_retries - 1) =>
                /\ k = Len(trace)
                /\ pc = "done" => result.kind = "raise"

C7_Witness ==
    /\ IsRetry /\ pc = "done" /\ max_retries = 3
    /\ Cardinality(InvokeIdx) = 2
    /\ trace[Len(trace)].ev = "invoke"
    /\ trace[Len(trace)].out = "ok"
    /\ result.kind = "return"

\* C8: an attempt that fails with an exception that is no SQLAlchemyError
\* ends the call at once: that exception is raised, and no sleep, health
\* check, reconnect or further attempt follows, whatever attempts remain.
C8_OtherErrorsPropagate ==
    IsRetry =>
        \A k \in InvokeIdx :
            trace[k].out = "Exception" =>
                /\ k = Len(trace)
                /\ pc = "done"
                /\ result = Raised(Exc("Exception", trace[k].attempt))

C8_Witness ==
    /\ IsRetry /\ pc = "done" /\ max_retries = 3
    /\ \E k \in InvokeIdx : trace[k].out = "Exception" /\ trace[k].attempt = 0
    /\ result.kind = "raise"

\* C10: with max_retries <= 0 execute_with_retry never invokes the operation
\* and returns None; with max_retries >= 1 it ends by returning the value of
\* a successful invocation (its last) or by raising, never otherwise.
C10_ReturnOrRaise ==
    (IsRetry /\ pc = "done") =>
        IF max_retries <= 0
        THEN trace = <<>> /\ result = ReturnedNone
        ELSE \/ result.kind = "raise"
             \/ /\ result.kind = "return"
                /\ trace # <<>>
                /\ trace[Len(trace)].ev = "invoke"
                /\ trace[Len(trace)].out = "ok"
                /\ result.value = trace[Len(trace)].val

C10_Witness ==
    /\ IsRetry /\ pc = "done" /\ max_retries = -1
    /\ result = ReturnedNone
    /\ InvokeIdx = {}

OpIdx == {k \in Idx : trace[k].ev = "op"}
FailIdx == {k \in OpIdx : trace[k].out # "ok"}
CommitIdx == {k \in Idx : trace[k].ev = "commit"}
SessionIdx == {k \in Idx : trace[k].ev = "session"}
IsBatch == fn = "batch_operation"

\* The position of operation op in the list passed in.
PosOf(op) == CHOOSE p \in 1..Len(operations) : operations[p] = op

\* ceil(n / b)
CeilDiv(n, b) == (n + b - 1) \div b

\* C3: when an operation of a chunk fails in batch_operation, the chunk's
\* session is rolled back and never committed, nothing of the chunk is made
\* durable, no operation and no chunk is started after the failure, and the
\* failure is raised.
C3_ChunkFailureStopsBatch ==
    IsBatch =>
        \A k \in FailIdx :
            LET sid == trace[k].sid
            IN  /\ \A m \in CommitIdx : trace[m].sid # sid
                /\ \A m \in Idx :
                    m > k => trace[m].ev \notin {"op", "session", "commit"}
                /\ \A op \in committed :
                    \E m \in OpIdx : trace[m].op = op /\ trace[m].sid # sid
                /\ pc \in {"batch_except", "done"}
                /\ pc = "done" =>
                    /\ Len(trace) = k + 1
                    /\ trace[k + 1] = EvRollback(sid)
                    /\ session.pending = <<>>
                    /\ result = Raised(Exc(trace[k].out, trace[k].op))

C3_Witness ==
    /\ IsBatch /\ pc = "done"
    /\ Len(operations) = 4 /\ batch_size = 2
    /\ \E k \in FailIdx : PosOf(trace[k].op) = 3
    /\ Cardinality(OpIdx) = 3
    /\ result.kind = "raise"

\* C4: batch_operation on n operations with batch_size b, none of which
\* fails: ceil(n / b) sessions are opened, pairwise distinct; the c-th runs
\* operations (c-1)b+1 .. min(cb, n) in list order and is then committed,
\* once; nothing else happens; all n operations are durable; the n results
\* are returned in list order.
C4_ChunksInOrder ==
    (IsBatch /\ pc = "done" /\ FailIdx = {}) =>
        LET n == Len(operations)
            b == batch_size
            m == CeilDiv(n, b)
            start(c) == (c - 1) * (b + 2) + 1
            size(c) == IF c * b <= n THEN b ELSE n - (c - 1) * b
        IN  /\ Len(trace) = n + 2 * m
            /\ Cardinality(SessionIdx) = m
            /\ \A c \in 1..m :
                /\ trace[start(c)].ev = "session"
                /\ \A d \in 1..m : d # c =>
                        trace[start(d)].sid # trace[start(c)].sid
                /\ \A j \in 1..size(c) :
                    trace[start(c) + j] =
                        EvOp(operations[(c - 1) * b + j], trace[start(c)].sid, "ok")
                /\ trace[start(c) + size(c) + 1] = EvCommit(trace[start(c)].sid)
            /\ committed = Range(operations)
            /\ result = Returned([k \in 1..n |-> Res(operations[k])])

C4_Witness ==
    /\ IsBatch /\ pc = "done" /\ FailIdx = {}
    /\ operations = <<3, 1, 4, 2>> /\ batch_size = 3
    /\ Cardinality(CommitIdx) = 2
    /\ result.kind = "return"

\* C9: when a chunk after the first fails in batch_operation, the operations
\* of every earlier chunk are (and stay) durable, and the caller gets the
\* exception alone, with none of their results.
C9_EarlierChunksStayCommitted ==
    IsBatch =>
        \A k \in FailIdx :
            LET p == PosOf(trace[k].op)
                done == ((p - 1) \div batch_size) * batch_size
            IN  /\ \A q \in 1..done : operations[q] \in committed
                /\ pc = "done" =>
                    /\ result = Raised(caught)
                    /\ results = [q \in 1..done |-> Res(operations[q])]

C9_Witness ==
    /\ IsBatch /\ pc = "done"
    /\ Len(operations) = 4 /\ batch_size = 2
    /\ \E k \in FailIdx : PosOf(trace[k].op) = 4
    /\ Cardinality(committed) = 2
    /\ Len(results) = 2
    /\ result.kind = "raise"

\* C6: TransactionManager.transaction commits at most once, and only as its
\* last act after every operation has succeeded in list order, returning
\* their results in that order; if an operation fails, no later operation is
\* run, the session is rolled back and never committed, nothing is made
\* durable, and the failure is raised.
C6_AllOrNothing ==
    fn = "transaction" =>
        /\ Cardinality(CommitIdx) <= 1
        /\ \A c \in CommitIdx :
            /\ c = Len(trace)
            /\ c = Len(operations) + 1
            /\ \A q \in 1..Len(operations) :
                trace[q] = EvOp(operations[q], trace[c].sid, "ok")
            /\ pc = "done"
            /\ result = Returned([q \in 1..Len(operations) |-> Res(operations[q])])
        /\ \A k \in FailIdx :
            /\ \A m \in Idx : m > k => trace[m].ev \notin {"op", "commit"}
            /\ CommitIdx = {}
            /\ committed = {}
            /\ pc \in {"txn_except", "done"}
            /\ pc = "done" =>
                /\ trace[Len(trace)] = EvRollback(trace[k].sid)
                /\ session.pending = <<>>
                /\ result = Raised(Exc(trace[k].out, trace[k].op))
        /\ pc = "done" => (CommitIdx # {} \/ FailIdx # {})

C6_Witness ==
    /\ fn = "transaction" /\ pc = "done"
    /\ Len(operations) = 3
    /\ \E k \in FailIdx : PosOf(trace[k].op) = 2
    /\ Cardinality(OpIdx) = 2
    /\ result.kind = "raise"

\* C5: when the operation of TransactionManager.savepoint fails on a session
\* whose outer transaction has pending work, the outer transaction survives:
\* its pending work is still pending (not rolled back, not committed) and
\* the transaction is still active when the exception reaches the caller.
C5_OuterTransactionSurvives ==
    (/\ fn = "savepoint" /\ pc = "done"
     /\ trace[1].outer
     /\ FailIdx # {})
    => /\ session.pending = <<OuterWork>>
       /\ session.inTxn
       /\ OuterWork \notin committed
       /\ result.kind = "raise"

====
